---------------------------- MODULE Spec2Model ----------------------------
(***************************************************************************)
(* A model of lib/jsonrpc.c: the JSON-RPC endpoint (struct jsonrpc) over a *)
(* non-blocking byte stream, and the reconnecting session wrapper (struct  *)
(* jsonrpc_session).                                                       *)
(*                                                                         *)
(* Two specifications share the variables:                                 *)
(*   Spec         one endpoint driven through its public functions         *)
(*   SessionSpec  one session driven through jsonrpc_session_*             *)
(***************************************************************************)
EXTENDS Integers, Sequences, FiniteSets, TLC

(***************************************************************************)
(* Bounds of the model.                                                    *)
(***************************************************************************)
\* messages handed to jsonrpc_send plus top-level JSON values the peer writes,
\* on one connection
MaxLoad == 2
\* stream_send calls one jsonrpc_run may make before the transport refuses
MaxWrites == 2
\* capacity of the input byteq (BYTEQ_SIZE in byteq.h)
BYTEQ_SIZE == 2
\* the same, on one connection of a session
MaxSessionLoad == 1
\* largest seqno the session model explores
MaxSeqno == 3

(***************************************************************************)
(* errno values and the stdio EOF sentinel, as the code uses them.         *)
(***************************************************************************)
EAGAIN == 11
EPIPE == 32
EPROTO == 71
ENOTCONN == 107
EOF == -1

\* A C null pointer (a char * or a struct json *).
NULL == "NULL"

(***************************************************************************)
(* JSON values.  A value inside a message is an atom: "null", a string     *)
(* "s:...", an integer "i:...", or an array "[...]".                       *)
(***************************************************************************)
JNull == "null"
JStrings == {"s:echo", "s:x"}
JIntegers == {"i:0", "i:1"}
JArrays == {"[]", "[1]"}
JAtoms == {JNull} \cup JStrings \cup JIntegers \cup JArrays

JsonType(j) ==
    IF j = JNull THEN "JSON_NULL"
    ELSE IF j \in JStrings THEN "JSON_STRING"
    ELSE IF j \in JIntegers THEN "JSON_INTEGER"
    ELSE "JSON_ARRAY"

\* u.string of a JSON string
JsonString(j) == IF j = "s:echo" THEN "echo" ELSE "x"

\* json_string_create
json_string_create(str) == IF str = "echo" THEN "s:echo" ELSE "s:x"

(***************************************************************************)
(* A top-level JSON value, as json_parser_finish returns it: an object     *)
(* (its members), an array, or a string that carries a parse error.        *)
(***************************************************************************)
JsonObject(members) == [type |-> "JSON_OBJECT", members |-> members]
JsonArrayTop == [type |-> "JSON_ARRAY", members |-> <<>>]
JsonParseError == [type |-> "JSON_STRING", members |-> <<>>]

\* An object's members are a sequence of <<name, value>> pairs, in the order
\* json_to_string writes them.
HasMember(members, name) == \E i \in 1..Len(members) : members[i][1] = name
MemberValue(members, name) ==
    LET i == CHOOSE k \in 1..Len(members) : members[k][1] = name
    IN  members[i][2]

\* shash_find_and_delete: the member's value, or NULL
shash_find(members, name) ==
    IF HasMember(members, name) THEN MemberValue(members, name) ELSE NULL
shash_delete(members, name) ==
    SelectSeq(members, LAMBDA m : m[1] # name)

(***************************************************************************)
(* struct jsonrpc_msg                                                      *)
(***************************************************************************)
jsonrpc_create(type, method, params, result, error, id) ==
    [type |-> type, method |-> method, params |-> params,
     result |-> result, error |-> error, id |-> id]

jsonrpc_create_notify(method, params) ==
    jsonrpc_create("JSONRPC_NOTIFY", method, params, NULL, NULL, NULL)

\* jsonrpc_create_request with the id the caller's counter minted
jsonrpc_create_request(method, params, id) ==
    jsonrpc_create("JSONRPC_REQUEST", method, params, NULL, NULL, id)

jsonrpc_create_reply(result, id) ==
    jsonrpc_create("JSONRPC_REPLY", NULL, NULL, result, NULL, id)

jsonrpc_create_error(error, id) ==
    jsonrpc_create("JSONRPC_REPLY", NULL, NULL, NULL, error, id)

jsonrpc_msg_type_to_string(type) ==
    CASE type = "JSONRPC_REQUEST" -> "request"
      [] type = "JSONRPC_NOTIFY" -> "notification"
      [] type = "JSONRPC_REPLY" -> "reply"
      [] type = "JSONRPC_ERROR" -> "error"
      [] OTHER -> "(null)"

\* No error string (a null char *).
NoError == <<>>

\* A slip: an error message is given the pattern of a reply.
Pattern_error_as_reply(type) ==
    CASE type = "JSONRPC_REQUEST" -> 69633
      [] type = "JSONRPC_NOTIFY" -> 69632
      [] type = "JSONRPC_REPLY" -> 257
      [] type = "JSONRPC_ERROR" -> 257

\* The presence pattern of a message type: 0x11001, 0x11000, 0x00101, 0x00011.
Pattern(type) ==
    CASE type = "JSONRPC_REQUEST" -> 69633
      [] type = "JSONRPC_NOTIFY" -> 69632
      [] type = "JSONRPC_REPLY" -> 257
      [] type = "JSONRPC_ERROR" -> 17

\* pattern & bit, for a one-bit mask
BitSet(pattern, bit) == (pattern \div bit) % 2 = 1

MustOrNot(pattern, bit) == IF BitSet(pattern, bit) THEN "must" ELSE "must not"

jsonrpc_msg_is_valid(m) ==
    IF m.params # NULL /\ JsonType(m.params) # "JSON_ARRAY"
    THEN <<"params", "must be JSON array">>
    ELSE
      LET pattern == Pattern(m.type)
          type_name == jsonrpc_msg_type_to_string(m.type)
      IN  IF (m.method # NULL) # BitSet(pattern, 65536)
          THEN <<type_name, MustOrNot(pattern, 65536), "method">>
          ELSE IF (m.params # NULL) # BitSet(pattern, 4096)
          THEN <<type_name, MustOrNot(pattern, 4096), "params">>
          ELSE IF (m.result # NULL) # BitSet(pattern, 256)
          THEN <<type_name, MustOrNot(pattern, 256), "result">>
          ELSE IF (m.error # NULL) # BitSet(pattern, 16)
          THEN <<type_name, MustOrNot(pattern, 16), "error">>
          ELSE IF (m.id # NULL) # BitSet(pattern, 1)
          THEN <<type_name, MustOrNot(pattern, 1), "id">>
          ELSE NoError

null_from_json_null(json) ==
    IF json # NULL /\ JsonType(json) = "JSON_NULL" THEN NULL ELSE json

\* No message (a null struct jsonrpc_msg *).
NoMsg == jsonrpc_create(NULL, NULL, NULL, NULL, NULL, NULL)

\* jsonrpc_msg_from_json: [error |-> error string or NoError, msg |-> message]
jsonrpc_msg_from_json(json) ==
    IF json.type # "JSON_OBJECT"
    THEN [error |-> <<"message is not a JSON object">>, msg |-> NoMsg]
    ELSE
      LET object == json.members
          method == shash_find(object, "method")
      IN  IF method # NULL /\ JsonType(method) # "JSON_STRING"
          THEN [error |-> <<"method is not a JSON string">>, msg |-> NoMsg]
          ELSE
            LET params == null_from_json_null(shash_find(object, "params"))
                result == null_from_json_null(shash_find(object, "result"))
                error == null_from_json_null(shash_find(object, "error"))
                id == null_from_json_null(shash_find(object, "id"))
                type == IF result # NULL THEN "JSONRPC_REPLY"
                        ELSE IF error # NULL THEN "JSONRPC_ERROR"
                        ELSE IF id # NULL THEN "JSONRPC_REQUEST"
                        ELSE "JSONRPC_NOTIFY"
                msg == jsonrpc_create(type,
                           IF method # NULL THEN JsonString(method) ELSE NULL,
                           params, result, error, id)
                rest == shash_delete(shash_delete(shash_delete(shash_delete(
                            shash_delete(object, "method"), "params"),
                            "result"), "error"), "id")
            IN  IF rest # <<>>
                THEN [error |-> <<"message has unexpected member", rest[1][1]>>,
                      msg |-> NoMsg]
                ELSE IF jsonrpc_msg_is_valid(msg) # NoError
                THEN [error |-> jsonrpc_msg_is_valid(msg), msg |-> NoMsg]
                ELSE [error |-> NoError, msg |-> msg]

\* json_object_put of the members jsonrpc_msg_to_json emits, in writing order
PutIf(cond, name, value) == IF cond THEN <<<<name, value>>>> ELSE <<>>

jsonrpc_msg_to_json(m) ==
    JsonObject(
        PutIf(m.method # NULL, "method", json_string_create(m.method))
     \o PutIf(m.params # NULL, "params", m.params)
     \o (IF m.result # NULL THEN <<<<"result", m.result>>>>
         ELSE PutIf(m.type = "JSONRPC_ERROR", "result", JNull))
     \o (IF m.error # NULL THEN <<<<"error", m.error>>>>
         ELSE PutIf(m.type = "JSONRPC_REPLY", "error", JNull))
     \o (IF m.id # NULL THEN <<<<"id", m.id>>>>
         ELSE PutIf(m.type = "JSONRPC_NOTIFY", "id", JNull)))


(***************************************************************************)
(* Bytes on the wire.  One byte of the model is one token of JSON text:    *)
(* a bracket, or one "name":value member of an object.                     *)
(***************************************************************************)
Open == <<"{", "">>
Close == <<"}", "">>
ArrOpen == <<"[", "">>
ArrClose == <<"]", "">>
Garbage == <<"!", "">>
Punctuation == {Open, Close, ArrOpen, ArrClose, Garbage}

\* json_to_string: the text of a top-level value
json_to_string(json) ==
    IF json.type = "JSON_OBJECT" THEN <<Open>> \o json.members \o <<Close>>
    ELSE <<ArrOpen, ArrClose>>

(***************************************************************************)
(* struct json_parser: the incremental parser.  It consumes bytes until a  *)
(* top-level value is complete or the input cannot be JSON.                *)
(***************************************************************************)
\* No parser (a null struct json_parser *).
NoParser == [live |-> FALSE, toks |-> <<>>, done |-> FALSE, error |-> FALSE]

json_parser_create == [live |-> TRUE, toks |-> <<>>, done |-> FALSE, error |-> FALSE]

json_parser_is_done(p) == p.done

\* the parser after one more byte
json_parser_input(p, b) ==
    IF p.toks = <<>>
    THEN IF b \in {Open, ArrOpen}
         THEN [p EXCEPT !.toks = <<b>>]
         ELSE [p EXCEPT !.done = TRUE, !.error = TRUE]
    ELSE IF p.toks[1] = Open
    THEN IF b = Close THEN [p EXCEPT !.done = TRUE]
         ELSE IF b \notin Punctuation THEN [p EXCEPT !.toks = Append(@, b)]
         ELSE [p EXCEPT !.done = TRUE, !.error = TRUE]
    ELSE IF b = ArrClose THEN [p EXCEPT !.done = TRUE]
         ELSE [p EXCEPT !.done = TRUE, !.error = TRUE]

\* json_parser_feed: [parser |-> the parser afterwards, used |-> bytes consumed]
RECURSIVE json_parser_feed(_, _)
json_parser_feed(p, input) ==
    IF p.done \/ input = <<>>
    THEN [parser |-> p, used |-> 0]
    ELSE LET rest == json_parser_feed(json_parser_input(p, Head(input)), Tail(input))
         IN  [parser |-> rest.parser, used |-> rest.used + 1]

\* json_parser_finish: the value, or a JSON string that reports the error
json_parser_finish(p) ==
    IF p.error \/ ~p.done THEN JsonParseError
    ELSE IF p.toks[1] = Open THEN JsonObject(Tail(p.toks))
    ELSE JsonArrayTop

(***************************************************************************)
(* struct byteq: the input ring.  head is the write position modulo the    *)
(* capacity; data are the bytes between tail and head.                     *)
(***************************************************************************)
Min(a, b) == IF a < b THEN a ELSE b

byteq_init == [head |-> 0, data |-> <<>>]
byteq_used(q) == Len(q.data)
byteq_avail(q) == BYTEQ_SIZE - byteq_used(q)
byteq_is_empty(q) == byteq_used(q) = 0
byteq_tailpos(q) == (q.head + BYTEQ_SIZE - byteq_used(q)) % BYTEQ_SIZE
byteq_headroom(q) == Min(byteq_avail(q), BYTEQ_SIZE - q.head)
byteq_tailroom(q) == Min(byteq_used(q), BYTEQ_SIZE - byteq_tailpos(q))
\* the readable span at the tail
byteq_tail(q) == SubSeq(q.data, 1, byteq_tailroom(q))
\* bytes were stored at the head: byteq_advance_head
byteq_advance_head(q, bytes) ==
    [head |-> (q.head + Len(bytes)) % BYTEQ_SIZE, data |-> q.data \o bytes]
byteq_advance_tail(q, n) ==
    [q EXCEPT !.data = SubSeq(@, n + 1, Len(@))]

(***************************************************************************)
(* struct jsonrpc: the endpoint.  stream is TRUE while the endpoint holds  *)
(* its stream.  output is the queue of buffers, each the bytes not yet     *)
(* accepted by the transport.                                              *)
(***************************************************************************)
jsonrpc_open ==
    [stream |-> TRUE, status |-> 0, input |-> byteq_init, parser |-> NoParser,
     received |-> NoMsg, output |-> <<>>, backlog |-> 0]

\* A slip: the send queue survives the cleanup.
jsonrpc_cleanup_keeps_queue(rpc) ==
    [rpc EXCEPT !.stream = FALSE, !.parser = NoParser, !.received = NoMsg]

jsonrpc_cleanup(rpc) ==
    [rpc EXCEPT !.stream = FALSE, !.parser = NoParser, !.received = NoMsg,
                !.output = <<>>, !.backlog = 0]

\* A slip: a later error overwrites the latched one.
jsonrpc_error_overwrites(rpc, error) ==
    jsonrpc_cleanup([rpc EXCEPT !.status = error])

jsonrpc_error(rpc, error) ==
    IF rpc.status = 0
    THEN jsonrpc_cleanup([rpc EXCEPT !.status = error])
    ELSE rpc

jsonrpc_get_status(rpc) == rpc.status

jsonrpc_get_backlog(rpc) == IF rpc.status # 0 THEN 0 ELSE rpc.backlog

\* What stream_send may return for a buffer of size bytes: the number of
\* bytes accepted, or a negative errno.  After MaxWrites calls within one
\* jsonrpc_run the transport accepts no more.
StreamSendResults(size, calls) ==
    (IF calls < MaxWrites THEN 0..size ELSE {}) \cup {-EAGAIN, -EPIPE}

\* A slip: the backlog is not reduced by what was written.
jsonrpc_run_write_keeps_backlog(rpc, retval) ==
    LET buf == Head(rpc.output)
        rest == SubSeq(buf, retval + 1, Len(buf))
    IN  [rpc EXCEPT !.output = IF rest = <<>> THEN Tail(@)
                               ELSE <<rest>> \o Tail(@)]

\* One iteration of the loop of jsonrpc_run, stream_send having returned retval.
jsonrpc_run_write(rpc, retval) ==
    LET buf == Head(rpc.output)
        rest == SubSeq(buf, retval + 1, Len(buf))
    IN  [rpc EXCEPT !.backlog = @ - retval,
                    !.output = IF rest = <<>> THEN Tail(@)
                               ELSE <<rest>> \o Tail(@)]

\* The loop of jsonrpc_run: every [rpc, wrote, idle] it can end in, wrote
\* being the bytes the transport accepted and idle the number of iterations
\* that wrote nothing and did not leave the loop.
RECURSIVE jsonrpc_run_loop(_, _, _, _)
jsonrpc_run_loop(rpc, wrote, calls, idle) ==
    IF rpc.output = <<>>
    THEN {[rpc |-> rpc, wrote |-> wrote, idle |-> idle]}
    ELSE LET buf == Head(rpc.output)
         IN  UNION {
               IF retval >= 0
               THEN jsonrpc_run_loop(jsonrpc_run_write(rpc, retval),
                                     wrote \o SubSeq(buf, 1, retval), calls + 1,
                                     IF retval = 0 THEN idle + 1 ELSE idle)
               ELSE IF retval # -EAGAIN
               THEN {[rpc |-> jsonrpc_error(rpc, -retval), wrote |-> wrote,
                      idle |-> idle]}
               ELSE {[rpc |-> rpc, wrote |-> wrote, idle |-> idle]}
               : retval \in StreamSendResults(Len(buf), calls) }

jsonrpc_run(rpc) ==
    IF rpc.status # 0
    THEN {[rpc |-> rpc, wrote |-> <<>>, idle |-> 0]}
    ELSE jsonrpc_run_loop(rpc, <<>>, 0, 0)

\* A slip: the new buffer is queued at the head.
jsonrpc_send_pushes_head(rpc, msg) ==
    IF rpc.status # 0
    THEN {[rpc |-> rpc, ret |-> rpc.status, wrote |-> <<>>, pushed |-> <<>>,
           destroyed |-> 1, idle |-> 0]}
    ELSE LET s == json_to_string(jsonrpc_msg_to_json(msg))
             length == Len(s)
             queued == [rpc EXCEPT !.output = <<s>> \o @,
                                   !.backlog = @ + length]
         IN  IF Len(queued.output) = 1
             THEN {[rpc |-> r.rpc, ret |-> r.rpc.status, wrote |-> r.wrote,
                    pushed |-> <<s>>, destroyed |-> 1, idle |-> r.idle]
                     : r \in jsonrpc_run(queued)}
             ELSE {[rpc |-> queued, ret |-> queued.status, wrote |-> <<>>,
                    pushed |-> <<s>>, destroyed |-> 1, idle |-> 0]}

\* jsonrpc_send: every [rpc, ret, wrote, pushed, destroyed, idle] it can end
\* in, pushed being the buffers appended to the output queue, destroyed the
\* number of times msg was freed (by jsonrpc_msg_destroy, or by
\* jsonrpc_msg_to_json, which frees the message it serializes) and idle as
\* for jsonrpc_run.
jsonrpc_send(rpc, msg) ==
    IF rpc.status # 0
    THEN {[rpc |-> rpc, ret |-> rpc.status, wrote |-> <<>>, pushed |-> <<>>,
           destroyed |-> 1, idle |-> 0]}
    ELSE LET s == json_to_string(jsonrpc_msg_to_json(msg))
             length == Len(s)
             queued == [rpc EXCEPT !.output = Append(@, s),
                                   !.backlog = @ + length]
         IN  IF Len(queued.output) = 1
             THEN {[rpc |-> r.rpc, ret |-> r.rpc.status, wrote |-> r.wrote,
                    pushed |-> <<s>>, destroyed |-> 1, idle |-> r.idle]
                     : r \in jsonrpc_run(queued)}
             ELSE {[rpc |-> queued, ret |-> queued.status, wrote |-> <<>>,
                    pushed |-> <<s>>, destroyed |-> 1, idle |-> 0]}

\* A slip: a value that is no message is dropped and parsing goes on.
jsonrpc_received_resyncs(rpc) ==
    LET json == json_parser_finish(rpc.parser)
        r1 == [rpc EXCEPT !.parser = NoParser]
    IN  IF json.type = "JSON_STRING"
        THEN jsonrpc_error(r1, EPROTO)
        ELSE LET dec == jsonrpc_msg_from_json(json)
             IN  IF dec.error # NoError
                 THEN r1
                 ELSE [r1 EXCEPT !.received = dec.msg]

\* jsonrpc_received: the parser is done; decode its value.
jsonrpc_received(rpc) ==
    LET json == json_parser_finish(rpc.parser)
        r1 == [rpc EXCEPT !.parser = NoParser]
    IN  IF json.type = "JSON_STRING"
        THEN jsonrpc_error(r1, EPROTO)
        ELSE LET dec == jsonrpc_msg_from_json(json)
             IN  IF dec.error # NoError
                 THEN jsonrpc_error(r1, EPROTO)
                 ELSE [r1 EXCEPT !.received = dec.msg]

\* What stream_recv may return when avail bytes have arrived and the buffer
\* has room for chunk: a byte count, 0 for end of stream, or a negative errno.
StreamRecvResults(avail, chunk) ==
    IF avail = <<>>
    THEN {-EAGAIN, 0, -EPIPE}
    ELSE 1..Min(Len(avail), chunk) \cup {-EPIPE}

\* A slip: the ring's tail advances by the span offered to the parser.
jsonrpc_recv_feed_span(rpc) ==
    LET parser == IF rpc.parser = NoParser THEN json_parser_create
                  ELSE rpc.parser
        n == byteq_tailroom(rpc.input)
        fed == json_parser_feed(parser, byteq_tail(rpc.input))
    IN  [rpc EXCEPT !.parser = fed.parser,
                    !.input = byteq_advance_tail(@, n)]

\* The parsing branch of the loop of jsonrpc_recv: feed the parser the
\* readable span and advance the ring's tail by what it consumed.
jsonrpc_recv_feed(rpc) ==
    LET parser == IF rpc.parser = NoParser THEN json_parser_create
                  ELSE rpc.parser
        fed == json_parser_feed(parser, byteq_tail(rpc.input))
    IN  [rpc EXCEPT !.parser = fed.parser,
                    !.input = byteq_advance_tail(@, fed.used)]

\* The loop of jsonrpc_recv: every [rpc, avail, ret, msgp, fin, idle] it can
\* end in; avail are the arrived bytes not yet read, fin the values the parser
\* finished, idle the number of iterations in which no byte was read, the
\* parser took no byte and finished no value, and the loop was not left.
RECURSIVE jsonrpc_recv_loop(_, _, _, _)
jsonrpc_recv_loop(rpc, avail, fin, idle) ==
    IF rpc.received # NoMsg
    THEN {[rpc |-> [rpc EXCEPT !.received = NoMsg], avail |-> avail, ret |-> 0,
           msgp |-> rpc.received, fin |-> fin, idle |-> idle]}
    ELSE IF byteq_is_empty(rpc.input)
    THEN LET chunk == byteq_headroom(rpc.input)
         IN  UNION {
               IF retval < 0
               THEN IF retval = -EAGAIN
                    THEN {[rpc |-> rpc, avail |-> avail, ret |-> EAGAIN,
                           msgp |-> NoMsg, fin |-> fin, idle |-> idle]}
                    ELSE {[rpc |-> jsonrpc_error(rpc, -retval), avail |-> avail,
                           ret |-> jsonrpc_error(rpc, -retval).status,
                           msgp |-> NoMsg, fin |-> fin, idle |-> idle]}
               ELSE IF retval = 0
               THEN {[rpc |-> jsonrpc_error(rpc, EOF), avail |-> avail,
                      ret |-> EOF, msgp |-> NoMsg, fin |-> fin, idle |-> idle]}
               ELSE jsonrpc_recv_loop(
                        [rpc EXCEPT !.input =
                            byteq_advance_head(@, SubSeq(avail, 1, retval))],
                        SubSeq(avail, retval + 1, Len(avail)), fin, idle)
               : retval \in StreamRecvResults(avail, chunk) }
    ELSE LET r1 == jsonrpc_recv_feed(rpc)
             used == byteq_used(rpc.input) - byteq_used(r1.input)
         IN  IF json_parser_is_done(r1.parser)
             THEN LET r2 == jsonrpc_received(r1)
                      fin2 == Append(fin, json_parser_finish(r1.parser))
                  IN  IF r2.status # 0
                      THEN {[rpc |-> r2, avail |-> avail, ret |-> r2.status,
                             msgp |-> NoMsg, fin |-> fin2, idle |-> idle]}
                      ELSE jsonrpc_recv_loop(r2, avail, fin2, idle)
             ELSE jsonrpc_recv_loop(r1, avail, fin,
                                    IF used = 0 THEN idle + 1 ELSE idle)

jsonrpc_recv(rpc, avail) ==
    IF rpc.status # 0
    THEN {[rpc |-> rpc, avail |-> avail, ret |-> rpc.status, msgp |-> NoMsg,
           fin |-> <<>>, idle |-> 0]}
    ELSE jsonrpc_recv_loop(rpc, avail, <<>>, 0)

\* jsonrpc_wait: the poll-loop registrations it makes
jsonrpc_wait(rpc) ==
    IF rpc.status = 0
    THEN {"stream_run_wait"} \cup
         (IF rpc.output # <<>> THEN {"stream_send_wait"} ELSE {})
    ELSE {}

\* jsonrpc_recv_wait: the poll-loop registration it makes
jsonrpc_recv_wait(rpc) ==
    IF rpc.status # 0 \/ rpc.received # NoMsg \/ ~byteq_is_empty(rpc.input)
    THEN {"poll_immediate_wake"}
    ELSE {"stream_recv_wait"}


(***************************************************************************)
(* The state.                                                              *)
(*   rpc        the endpoint (the session's endpoint under SessionSpec)    *)
(*   avail      bytes that arrived on the stream and were not read yet     *)
(*   wire       bytes the peer wrote that have not arrived yet             *)
(*   peer       the top-level values the peer wrote on this connection     *)
(*   sent       bytes stream_send accepted on this connection              *)
(*   sendLog    the buffers jsonrpc_send queued on this connection         *)
(*   delivered  the messages jsonrpc_recv yielded on this connection       *)
(*   last       the last call: its name, the endpoint's status on entry,   *)
(*              its return value and what else it handed back              *)
(*   s          the session                                                *)
(*   obs        the <<endpoint instance, seqno>> pairs a caller of the      *)
(*              session could observe between session calls                *)
(*   arg, res   the argument and the result of a call of one of the        *)
(*              message functions (MsgSpec)                                *)
(*   tx         a call of jsonrpc_transact_block in progress (TransactSpec)*)
(*   pair       two sessions connected to each other (PairSpec)            *)
(*   life       the streams of a session's lifetime: how many it opened or *)
(*              was given, how many times stream_close closed one, and     *)
(*              whether jsonrpc_session_close has freed the session        *)
(*              (LifeSpec)                                                 *)
(***************************************************************************)
VARIABLES rpc, avail, wire, peer, sent, sendLog, delivered, last, s, obs,
          arg, res, tx, pair, life

vars == <<rpc, avail, wire, peer, sent, sendLog, delivered, last, s, obs,
          arg, res, tx, pair, life>>

\* What the specifications that do not use them leave alone.
aux == <<arg, res, tx, pair, life>>

NoResult == [op |-> "none"]
NoTransaction == [pc |-> "none"]
NoPair == <<>>
NoLife == [opened |-> 0, closed |-> 0, freed |-> FALSE]

AuxInit ==
    /\ arg = NoMsg
    /\ res = NoResult
    /\ tx = NoTransaction
    /\ pair = NoPair
    /\ life = NoLife

RECURSIVE Flatten(_)
Flatten(seqs) == IF seqs = <<>> THEN <<>> ELSE Head(seqs) \o Flatten(Tail(seqs))

IsPrefix(a, b) == Len(a) <= Len(b) /\ SubSeq(b, 1, Len(a)) = a

(***************************************************************************)
(* What the peer may write: well-formed messages, objects that are not     *)
(* messages, a value that is not an object, and text that is not JSON.     *)
(***************************************************************************)
ObjRequestEcho ==
    JsonObject(<<<<"method", "s:echo">>, <<"params", "[1]">>, <<"id", "i:0">>>>)
ObjNotify == JsonObject(<<<<"method", "s:x">>, <<"params", "[]">>>>)
ObjReplyEcho ==
    JsonObject(<<<<"result", "[]">>, <<"error", JNull>>, <<"id", "s:echo">>>>)
ObjUnknownMember ==
    JsonObject(<<<<"jsonrpc", "s:x">>, <<"method", "s:x">>, <<"params", "[]">>>>)
ObjInvalidCombination == JsonObject(<<<<"method", "s:x">>>>)
ObjParamsNotArray == JsonObject(<<<<"method", "s:x">>, <<"params", "i:1">>>>)

GoodValues == {ObjRequestEcho, ObjNotify, ObjReplyEcho}
BadValues == {ObjUnknownMember, ObjInvalidCombination, ObjParamsNotArray,
              JsonArrayTop, JsonParseError}
PeerValues == GoodValues \cup BadValues

\* The peer's values on a session's connection: echo traffic, traffic that
\* only looks like it, and text that is not JSON.
ObjNotifyEcho == JsonObject(<<<<"method", "s:echo">>, <<"params", "[]">>>>)
ObjErrorEcho ==
    JsonObject(<<<<"result", JNull>>, <<"error", "s:x">>, <<"id", "s:echo">>>>)
ObjReply ==
    JsonObject(<<<<"result", "s:echo">>, <<"error", JNull>>, <<"id", "i:1">>>>)

\* The peer's answers to the request of a transaction, whose id is 0.
ObjReplyMatch ==
    JsonObject(<<<<"result", "s:x">>, <<"error", JNull>>, <<"id", "i:0">>>>)
ObjErrorMatch ==
    JsonObject(<<<<"result", JNull>>, <<"error", "s:x">>, <<"id", "i:0">>>>)

SessionPeerValues == {ObjRequestEcho, ObjReplyEcho, ObjNotifyEcho,
                      ObjErrorEcho, ObjReply, JsonParseError}

\* The text the peer writes for a value; text that is not JSON is one byte.
PeerText(v) == IF v = JsonParseError THEN <<Garbage>> ELSE json_to_string(v)

RECURSIVE PeerStream(_)
PeerStream(vs) ==
    IF vs = <<>> THEN <<>> ELSE PeerText(Head(vs)) \o PeerStream(Tail(vs))

PeerScripts == UNION {[1..n -> PeerValues] : n \in 0..MaxLoad}

\* The messages the caller sends.
MsgRequest == jsonrpc_create_request("x", "[]", "i:0")
MsgReply == jsonrpc_create_reply("i:1", "i:0")
SendMsgs == {MsgRequest, MsgReply}

\* The codes the caller may pass to jsonrpc_error.
FailCodes == {EOF, EPIPE}

Call(op, entry, ret, msgp, fin, regs) ==
    [op |-> op, entry |-> entry, ret |-> ret, msgp |-> msgp, fin |-> fin,
     regs |-> regs, dec |-> "", notes |-> <<>>, decoded |-> NoMsg,
     destroyed |-> 0]

\* The session while no session exists (Spec drives the endpoint alone).
NoSession == [rpc |-> 0, stream |-> FALSE, seqno |-> 0, max_tries |-> 0,
              gen |-> 0]

\* stream_close: bytes in flight on a closed stream are gone.
Pending(r, bytes) == IF r.stream THEN bytes ELSE <<>>

Init ==
    /\ rpc = jsonrpc_open
    /\ avail = <<>>
    /\ \E script \in PeerScripts :
         /\ peer = script
         /\ wire = PeerStream(script)
    /\ sent = <<>>
    /\ sendLog = <<>>
    /\ delivered = <<>>
    /\ last = Call("none", 0, 0, NoMsg, <<>>, {})
    /\ s = NoSession
    /\ obs = {}
    /\ AuxInit

\* k more bytes of what the peer wrote arrive.
Arrive ==
    /\ rpc.stream
    /\ wire # <<>>
    /\ \E k \in 1..Len(wire) :
         /\ avail' = avail \o SubSeq(wire, 1, k)
         /\ wire' = SubSeq(wire, k + 1, Len(wire))
    /\ last' = Call("none", 0, 0, NoMsg, <<>>, {})
    /\ UNCHANGED <<rpc, peer, sent, sendLog, delivered, s, obs, aux>>

Send ==
    /\ rpc.status # 0 \/ Len(sendLog) + Len(peer) < MaxLoad
    /\ \E msg \in SendMsgs : \E r \in jsonrpc_send(rpc, msg) :
         /\ rpc' = r.rpc
         /\ sent' = sent \o r.wrote
         /\ sendLog' = sendLog \o r.pushed
         /\ avail' = Pending(r.rpc, avail)
         /\ wire' = Pending(r.rpc, wire)
         /\ last' = [Call("send", rpc.status, r.ret, NoMsg, <<>>, {})
                       EXCEPT !.destroyed = r.destroyed]
    /\ UNCHANGED <<peer, delivered, s, obs, aux>>

Recv ==
    /\ \E r \in jsonrpc_recv(rpc, avail) :
         /\ rpc' = r.rpc
         /\ avail' = Pending(r.rpc, r.avail)
         /\ wire' = Pending(r.rpc, wire)
         /\ delivered' = IF r.msgp # NoMsg THEN Append(delivered, r.msgp)
                         ELSE delivered
         /\ last' = Call("recv", rpc.status, r.ret, r.msgp, r.fin, {})
    /\ UNCHANGED <<peer, sent, sendLog, s, obs, aux>>

Run ==
    /\ \E r \in jsonrpc_run(rpc) :
         /\ rpc' = r.rpc
         /\ sent' = sent \o r.wrote
         /\ avail' = Pending(r.rpc, avail)
         /\ wire' = Pending(r.rpc, wire)
    /\ last' = Call("none", 0, 0, NoMsg, <<>>, {})
    /\ UNCHANGED <<peer, sendLog, delivered, s, obs, aux>>

Wait ==
    /\ last' = Call("wait", rpc.status, 0, NoMsg, <<>>, jsonrpc_wait(rpc))
    /\ UNCHANGED <<rpc, avail, wire, peer, sent, sendLog, delivered, s, obs,
                   aux>>

RecvWait ==
    /\ last' = Call("recv_wait", rpc.status, 0, NoMsg, <<>>,
                    jsonrpc_recv_wait(rpc))
    /\ UNCHANGED <<rpc, avail, wire, peer, sent, sendLog, delivered, s, obs,
                   aux>>

Fail ==
    /\ \E code \in FailCodes :
         rpc' = jsonrpc_error(rpc, code)
    /\ avail' = Pending(rpc', avail)
    /\ wire' = Pending(rpc', wire)
    /\ last' = Call("none", 0, 0, NoMsg, <<>>, {})
    /\ UNCHANGED <<peer, sent, sendLog, delivered, s, obs, aux>>

Next == Arrive \/ Send \/ Recv \/ Run \/ Wait \/ RecvWait \/ Fail

Spec == Init /\ [][Next]_vars


(***************************************************************************)
(* Properties of the endpoint, checked under Spec.                         *)
(***************************************************************************)
TornDown(r) ==
    /\ ~r.stream
    /\ r.parser = NoParser
    /\ r.received = NoMsg
    /\ r.output = <<>>
    /\ r.backlog = 0

\* C1: the status is a sticky latch.  Once it is nonzero no call changes it
\* (the first error wins, a later jsonrpc_error with another code does not
\* overwrite it), and every jsonrpc_send and jsonrpc_recv called on the dead
\* endpoint returns exactly the latched code, hands back no message, queues
\* nothing and delivers nothing.
C1_StatusLatch ==
    [][ /\ (rpc.status # 0 => rpc'.status = rpc.status)
        /\ (last'.op \in {"send", "recv"} /\ last'.entry # 0
              => /\ last'.entry = rpc.status
                 /\ last'.ret = rpc.status
                 /\ last'.msgp = NoMsg
                 /\ delivered' = delivered
                 /\ sendLog' = sendLog) ]_vars

\* A recv was called on an endpoint that a protocol error had latched.
C1_Witness ==
    /\ rpc.status = EPROTO
    /\ last.op = "recv"
    /\ last.entry = EPROTO
    /\ last.ret = EPROTO

\* C2: whenever the status is nonzero, the stream, the parser, the buffered
\* message and the send queue are released, the stored backlog is 0 and
\* jsonrpc_get_backlog reports 0, whatever caused the death.
C2_DeadInvariant ==
    rpc.status # 0 => TornDown(rpc) /\ jsonrpc_get_backlog(rpc) = 0

\* The endpoint died of a transport error while bytes were still queued.
C2_Witness ==
    /\ rpc.status = EPIPE
    /\ Len(sendLog) = 2
    /\ Len(sent) < Len(Flatten(sendLog))
    /\ Len(sent) > 0

RECURSIVE SumLen(_)
SumLen(bufs) == IF bufs = <<>> THEN 0 ELSE Len(Head(bufs)) + SumLen(Tail(bufs))

\* C3: on a healthy endpoint the backlog is the sum of the remaining byte
\* counts of the queued buffers (which is what was queued minus what the
\* transport accepted), and no queued buffer is empty.
C3_BacklogAccounting ==
    rpc.status = 0 =>
        /\ rpc.backlog = SumLen(rpc.output)
        /\ rpc.backlog = Len(Flatten(sendLog)) - Len(sent)
        /\ jsonrpc_get_backlog(rpc) = SumLen(rpc.output)
        /\ \A i \in 1..Len(rpc.output) : Len(rpc.output[i]) > 0

\* Two buffers are queued, the first partly written.
C3_Witness ==
    /\ rpc.status = 0
    /\ Len(rpc.output) = 2
    /\ Len(rpc.output[1]) < Len(sendLog[1])
    /\ rpc.backlog > 0

\* C4: the bytes the transport accepted are always a prefix of the
\* concatenation of the serialized messages in the order of the send calls,
\* on a healthy endpoint the queue holds exactly the rest, the accepted bytes
\* only grow, and a send that finds the queue occupied writes nothing.
C4_SendOrder ==
    /\ [](/\ IsPrefix(sent, Flatten(sendLog))
          /\ (rpc.status = 0 => sent \o Flatten(rpc.output) = Flatten(sendLog)))
    /\ [][ /\ IsPrefix(sent, sent')
           /\ (last'.op = "send" /\ rpc.output # <<>> => sent' = sent) ]_vars

\* Two different messages were sent and the transport is inside the second.
C4_Witness ==
    /\ Len(sendLog) = 2
    /\ sendLog[1] # sendLog[2]
    /\ Len(sent) > Len(sendLog[1])
    /\ Len(sent) < Len(Flatten(sendLog))

\* The message a well-formed value of the peer stands for.
ExpectedMsg(v) ==
    CASE v = ObjRequestEcho ->
           [type |-> "JSONRPC_REQUEST", method |-> "echo", params |-> "[1]",
            result |-> NULL, error |-> NULL, id |-> "i:0"]
      [] v = ObjNotify ->
           [type |-> "JSONRPC_NOTIFY", method |-> "x", params |-> "[]",
            result |-> NULL, error |-> NULL, id |-> NULL]
      [] v = ObjReplyEcho ->
           [type |-> "JSONRPC_REPLY", method |-> NULL, params |-> NULL,
            result |-> "[]", error |-> NULL, id |-> "s:echo"]
      [] v = ObjNotifyEcho ->
           [type |-> "JSONRPC_NOTIFY", method |-> "echo", params |-> "[]",
            result |-> NULL, error |-> NULL, id |-> NULL]
      [] v = ObjErrorEcho ->
           [type |-> "JSONRPC_ERROR", method |-> NULL, params |-> NULL,
            result |-> NULL, error |-> "s:x", id |-> "s:echo"]
      [] v = ObjReply ->
           [type |-> "JSONRPC_REPLY", method |-> NULL, params |-> NULL,
            result |-> "s:echo", error |-> NULL, id |-> "i:1"]
      [] v = ObjReplyMatch ->
           [type |-> "JSONRPC_REPLY", method |-> NULL, params |-> NULL,
            result |-> "s:x", error |-> NULL, id |-> "i:0"]
      [] v = ObjErrorMatch ->
           [type |-> "JSONRPC_ERROR", method |-> NULL, params |-> NULL,
            result |-> NULL, error |-> "s:x", id |-> "i:0"]

\* Offsets in the peer's byte stream (meaningful while the stream is open).
EndOffset(i) == Len(PeerStream(SubSeq(peer, 1, i)))
Complete(n) == Cardinality({i \in 1..Len(peer) : EndOffset(i) <= n})
Arrived == Len(PeerStream(peer)) - Len(wire)
Fed == Arrived - Len(avail) - byteq_used(rpc.input)

\* C5: the messages recv yields are the peer's messages, in order, none lost,
\* duplicated or merged; on a healthy endpoint every value whose bytes the
\* parser has consumed has been delivered and the parser holds exactly the
\* bytes of the next, unfinished value (bytes read beyond a message stay in
\* the ring); and recv returns EAGAIN only when no complete message is among
\* the bytes that have arrived.
C5_ReceiveFraming ==
    /\ Len(delivered) <= Len(peer)
    /\ \A i \in 1..Len(delivered) :
         peer[i] \in GoodValues /\ delivered[i] = ExpectedMsg(peer[i])
    /\ rpc.status = 0 =>
         /\ Len(delivered) = Complete(Fed)
         /\ rpc.parser.toks =
              SubSeq(PeerStream(peer), EndOffset(Len(delivered)) + 1, Fed)
         /\ rpc.received = NoMsg
    /\ last.op = "recv" /\ last.ret = EAGAIN =>
         /\ last.msgp = NoMsg
         /\ Complete(Arrived) = Len(delivered)
    /\ last.op = "recv" /\ last.ret = 0 =>
         last.msgp = delivered[Len(delivered)]

\* Two different messages were delivered, and all the peer wrote was read.
C5_Witness ==
    /\ Len(delivered) = 2
    /\ delivered[1] # delivered[2]
    /\ last.op = "recv"
    /\ last.ret = 0
    /\ last.msgp = delivered[2]
    /\ avail = <<>>
    /\ wire = <<>>

\* C6: when a completed top-level value is a parse error, is not an object or
\* is not a valid message, recv latches EPROTO, returns it, delivers nothing
\* and tears the endpoint down; a dead endpoint never delivers again,
\* whatever follows on the stream; recv returning EAGAIN leaves the status 0.
C6_ProtocolErrors ==
    /\ [](/\ (last.op = "recv" /\ last.fin # <<>> =>
                last.fin[1] = peer[IF last.msgp # NoMsg THEN Len(delivered)
                                   ELSE Len(delivered) + 1])
          /\ (last.op = "recv" /\ last.fin # <<>> /\ last.fin[1] \in BadValues =>
                /\ rpc.status = EPROTO
                /\ last.ret = EPROTO
                /\ last.msgp = NoMsg
                /\ TornDown(rpc))
          /\ (last.op = "recv" /\ last.ret = EAGAIN => rpc.status = 0))
    /\ [][rpc.status # 0 => delivered' = delivered]_vars

\* A value that is no message was followed by a well-formed one, and recv was
\* called again after the latch.
C6_Witness ==
    /\ rpc.status = EPROTO
    /\ Len(peer) = 2
    /\ peer[1] \in BadValues
    /\ peer[2] \in GoodValues
    /\ last.op = "recv"
    /\ last.entry = EPROTO
    /\ delivered = <<>>


(***************************************************************************)
(* struct jsonrpc_session.  s.rpc is 0 for a null pointer and otherwise    *)
(* names the endpoint instance the session holds (s.gen counts the         *)
(* endpoints it has held); s.stream is TRUE while the session holds a      *)
(* stream that is still connecting; s.max_tries is the controller's        *)
(* max_tries (0, or nonzero for reconnect_create's unlimited default).     *)
(*                                                                         *)
(* The session functions work on W, the session together with its endpoint *)
(* and connection, and collect in W.notes what they tell the controller.   *)
(***************************************************************************)
World ==
    [s |-> s, rpc |-> rpc, avail |-> avail, wire |-> wire, peer |-> peer,
     sent |-> sent, sendLog |-> sendLog, delivered |-> delivered,
     notes |-> <<>>, life |-> life]

\* a call of reconnect_connected, reconnect_disconnected, ...
Note(W, what) == [W EXCEPT !.notes = Append(@, what)]

SessionScripts ==
    UNION {[1..n -> SessionPeerValues] : n \in 0..MaxSessionLoad}

\* no endpoint: the memory of a freed struct jsonrpc
Freed == jsonrpc_cleanup(jsonrpc_open)

\* stream_close was called n times on a stream that was open
stream_closed(W, n) == [W EXCEPT !.life.closed = @ + n]

\* The endpoint of W has become r: if it held its stream and no longer does,
\* jsonrpc_cleanup has closed the stream.
Cleaned(W, r) ==
    stream_closed(W, IF W.rpc.stream /\ ~r.stream THEN 1 ELSE 0)

\* jsonrpc_close: the endpoint is cleaned up and freed, its connection is gone
jsonrpc_close(W) ==
    [Cleaned(W, Freed)
       EXCEPT !.rpc = Freed, !.avail = <<>>, !.wire = <<>>, !.peer = <<>>,
              !.sent = <<>>, !.sendLog = <<>>, !.delivered = <<>>]

\* A slip: the increment is lost.
seqno_inc_lost(seqno) == seqno

\* s->seqno++
seqno_inc(seqno) == seqno + 1

\* A slip: a held endpoint is not closed, only the sequence number moves.
jsonrpc_session_disconnect_keeps_endpoint(W) ==
    IF W.s.rpc # 0
    THEN [W EXCEPT !.s.seqno = seqno_inc(@)]
    ELSE IF W.s.stream
    THEN [stream_closed(W, 1)
            EXCEPT !.s.stream = FALSE, !.s.seqno = seqno_inc(@)]
    ELSE W

\* jsonrpc_session_disconnect
jsonrpc_session_disconnect(W) ==
    IF W.s.rpc # 0
    THEN LET dead == jsonrpc_error(W.rpc, EOF)
         IN  [jsonrpc_close([Cleaned(W, dead) EXCEPT !.rpc = dead])
                EXCEPT !.s.rpc = 0, !.s.seqno = seqno_inc(@)]
    ELSE IF W.s.stream
    THEN [stream_closed(W, 1)
            EXCEPT !.s.stream = FALSE, !.s.seqno = seqno_inc(@)]
    ELSE W

\* jsonrpc_session_connect, stream_open having returned error; it stores a
\* new stream in s->stream when it succeeds and a null pointer when it fails
jsonrpc_session_connect(W, error) ==
    LET W1 == jsonrpc_session_disconnect(W)
        W2 == IF error # 0
              THEN Note([W1 EXCEPT !.s.stream = FALSE], "connect_failed")
              ELSE Note([W1 EXCEPT !.s.stream = TRUE, !.life.opened = @ + 1],
                        "connecting")
    IN  [W2 EXCEPT !.s.seqno = seqno_inc(@)]

\* A slip: s->stream is not reset once the endpoint has taken the stream.
SessionPromote_keeps_stream(W, script) ==
    [W EXCEPT !.rpc = jsonrpc_open, !.s.rpc = W.s.gen + 1, !.s.gen = @ + 1,
              !.avail = <<>>, !.wire = PeerStream(script),
              !.peer = script, !.sent = <<>>, !.sendLog = <<>>,
              !.delivered = <<>>]

\* s->rpc = jsonrpc_open(s->stream); s->stream = NULL, on a connection on
\* which the peer writes script
SessionPromote(W, script) ==
    [W EXCEPT !.rpc = jsonrpc_open, !.s.rpc = W.s.gen + 1, !.s.gen = @ + 1,
              !.s.stream = FALSE, !.avail = <<>>, !.wire = PeerStream(script),
              !.peer = script, !.sent = <<>>, !.sendLog = <<>>,
              !.delivered = <<>>]

\* W after a jsonrpc_send or jsonrpc_run result r
AfterSend(W, r) ==
    [Cleaned(W, r.rpc)
       EXCEPT !.rpc = r.rpc, !.sent = @ \o r.wrote,
              !.avail = Pending(r.rpc, @), !.wire = Pending(r.rpc, @)]

\* A slip: the endpoint's status is not looked at after jsonrpc_run.
jsonrpc_session_run_drive_blind(W) ==
    IF W.s.rpc # 0
    THEN {AfterSend(W, r) : r \in jsonrpc_run(W.rpc)}
    ELSE IF W.s.stream
    THEN UNION {
           IF error = 0
           THEN {SessionPromote(Note(W, "connected"), script)
                   : script \in SessionScripts}
           ELSE IF error # EAGAIN
           THEN {[stream_closed(Note(W, "connect_failed"), 1)
                    EXCEPT !.s.stream = FALSE]}
           ELSE {W}
           : error \in {0, EAGAIN, EPIPE} }
    ELSE {W}

\* The first half of jsonrpc_session_run: drive the endpoint or the stream.
jsonrpc_session_run_drive(W) ==
    IF W.s.rpc # 0
    THEN { IF jsonrpc_get_status(r.rpc) # 0
           THEN jsonrpc_session_disconnect(Note(AfterSend(W, r), "disconnected"))
           ELSE AfterSend(W, r)
           : r \in jsonrpc_run(W.rpc) }
    ELSE IF W.s.stream
    THEN UNION {
           IF error = 0
           THEN {SessionPromote(Note(W, "connected"), script)
                   : script \in SessionScripts}
           ELSE IF error # EAGAIN
           THEN {[stream_closed(Note(W, "connect_failed"), 1)
                    EXCEPT !.s.stream = FALSE]}
           ELSE {W}
           : error \in {0, EAGAIN, EPIPE} }
    ELSE {W}

\* What reconnect_run may return.
Decisions(W) ==
    {"NOP", "DISCONNECT", "PROBE"} \cup
    (IF W.s.max_tries # 0 THEN {"CONNECT"} ELSE {})

\* A slip: the request keeps the integer id jsonrpc_create_request gave it.
ProbeRequest_keeps_id == jsonrpc_create_request("echo", "[]", "i:0")

\* The echo request of a probe.
ProbeRequest ==
    [jsonrpc_create_request("echo", "[]", "i:0")
       EXCEPT !.id = json_string_create("echo")]

\* The second half of jsonrpc_session_run: act on reconnect_run's decision.
jsonrpc_session_run_decide(W, dec) ==
    CASE dec = "CONNECT" ->
           {jsonrpc_session_connect(W, error) : error \in {0, EPIPE}}
      [] dec = "DISCONNECT" ->
           {jsonrpc_session_disconnect(Note(W, "disconnected"))}
      [] dec = "PROBE" ->
           IF W.s.rpc # 0
           THEN {[AfterSend(W, r) EXCEPT !.sendLog = @ \o r.pushed]
                   : r \in jsonrpc_send(W.rpc, ProbeRequest)}
           ELSE {W}
      [] OTHER -> {W}

\* jsonrpc_session_run: every [W, dec] it can end in
jsonrpc_session_run(W) ==
    UNION { UNION { {[W |-> W2, dec |-> dec]
                      : W2 \in jsonrpc_session_run_decide(W1, dec)}
                    : dec \in Decisions(W1) }
            : W1 \in jsonrpc_session_run_drive(W) }

\* jsonrpc_session_send: every [W, ret] it can end in
\* jsonrpc_session_send: every [W, ret, destroyed] it can end in
jsonrpc_session_send(W, msg) ==
    IF W.s.rpc # 0
    THEN {[W |-> [AfterSend(W, r) EXCEPT !.sendLog = @ \o r.pushed],
           ret |-> r.ret, destroyed |-> r.destroyed]
            : r \in jsonrpc_send(W.rpc, msg)}
    ELSE {[W |-> W, ret |-> ENOTCONN, destroyed |-> 0]}

\* A slip: the type of a message with the id "echo" is not looked at.
jsonrpc_session_recv_any_type(W) ==
    IF W.s.rpc # 0
    THEN UNION {
           LET W1 == [Cleaned(W, r.rpc)
                        EXCEPT !.rpc = r.rpc,
                               !.avail = Pending(r.rpc, r.avail),
                               !.wire = Pending(r.rpc, @),
                               !.delivered = IF r.msgp # NoMsg
                                             THEN Append(@, r.msgp) ELSE @]
               msg == r.msgp
           IN  IF msg # NoMsg
               THEN LET W2 == Note(W1, "received")
                    IN  IF msg.type = "JSONRPC_REQUEST" /\ msg.method = "echo"
                        THEN {[W |-> x.W, msgp |-> NoMsg, decoded |-> msg,
                               destroyed |-> 1]
                                : x \in jsonrpc_session_send(W2,
                                     jsonrpc_create_reply(msg.params, msg.id))}
                        ELSE IF /\ msg.id # NULL
                                /\ JsonType(msg.id) = "JSON_STRING"
                                /\ JsonString(msg.id) = "echo"
                        THEN {[W |-> W2, msgp |-> NoMsg, decoded |-> msg,
                               destroyed |-> 1]}
                        ELSE {[W |-> W2, msgp |-> msg, decoded |-> msg,
                               destroyed |-> 0]}
               ELSE {[W |-> W1, msgp |-> NoMsg, decoded |-> NoMsg,
                      destroyed |-> 0]}
           : r \in jsonrpc_recv(W.rpc, W.avail) }
    ELSE {[W |-> W, msgp |-> NoMsg, decoded |-> NoMsg, destroyed |-> 0]}

\* jsonrpc_session_recv: every [W, msgp, decoded, destroyed] it can end in;
\* msgp is the message returned, decoded the message jsonrpc_recv yielded and
\* destroyed the number of times that message was freed
jsonrpc_session_recv(W) ==
    IF W.s.rpc # 0
    THEN UNION {
           LET W1 == [Cleaned(W, r.rpc)
                        EXCEPT !.rpc = r.rpc,
                               !.avail = Pending(r.rpc, r.avail),
                               !.wire = Pending(r.rpc, @),
                               !.delivered = IF r.msgp # NoMsg
                                             THEN Append(@, r.msgp) ELSE @]
               msg == r.msgp
           IN  IF msg # NoMsg
               THEN LET W2 == Note(W1, "received")
                    IN  IF msg.type = "JSONRPC_REQUEST" /\ msg.method = "echo"
                        THEN {[W |-> x.W, msgp |-> NoMsg, decoded |-> msg,
                               destroyed |-> 1]
                                : x \in jsonrpc_session_send(W2,
                                     jsonrpc_create_reply(msg.params, msg.id))}
                        ELSE IF /\ msg.type = "JSONRPC_REPLY"
                                /\ msg.id # NULL
                                /\ JsonType(msg.id) = "JSON_STRING"
                                /\ JsonString(msg.id) = "echo"
                        THEN {[W |-> W2, msgp |-> NoMsg, decoded |-> msg,
                               destroyed |-> 1]}
                        ELSE {[W |-> W2, msgp |-> msg, decoded |-> msg,
                               destroyed |-> 0]}
               ELSE {[W |-> W1, msgp |-> NoMsg, decoded |-> NoMsg,
                      destroyed |-> 0]}
           : r \in jsonrpc_recv(W.rpc, W.avail) }
    ELSE {[W |-> W, msgp |-> NoMsg, decoded |-> NoMsg, destroyed |-> 0]}

jsonrpc_session_is_alive(W) == W.s.rpc # 0 \/ W.s.stream \/ W.s.max_tries # 0

jsonrpc_session_is_connected(W) == W.s.rpc # 0

jsonrpc_session_get_seqno(W) == W.s.seqno

\* jsonrpc_session_open
jsonrpc_session_open ==
    [rpc |-> 0, stream |-> FALSE, seqno |-> 0, max_tries |-> 1, gen |-> 0]

\* A slip: reconnect_set_max_tries(0) is left out.
jsonrpc_session_open_unreliably_retrying ==
    [rpc |-> 1, stream |-> FALSE, seqno |-> 0, max_tries |-> 1, gen |-> 1]

\* jsonrpc_session_open_unreliably, on an endpoint just opened
jsonrpc_session_open_unreliably ==
    [rpc |-> 1, stream |-> FALSE, seqno |-> 0, max_tries |-> 0, gen |-> 1]

(***************************************************************************)
(* SessionSpec: one session, driven through jsonrpc_session_run, _send and *)
(* _recv, with a controller that may decide anything.                      *)
(***************************************************************************)
SessionCall(op, entry, ret, msgp, dec, notes, decoded) ==
    [op |-> op, entry |-> entry, ret |-> ret, msgp |-> msgp, fin |-> <<>>,
     regs |-> {}, dec |-> dec, notes |-> notes, decoded |-> decoded,
     destroyed |-> 0]

\* What a caller can observe of the session between calls.
Observe(W) ==
    IF jsonrpc_session_is_connected(W)
    THEN {<<W.s.rpc, jsonrpc_session_get_seqno(W)>>}
    ELSE {}

Commit(W) ==
    /\ rpc' = W.rpc
    /\ avail' = W.avail
    /\ wire' = W.wire
    /\ peer' = W.peer
    /\ sent' = W.sent
    /\ sendLog' = W.sendLog
    /\ delivered' = W.delivered
    /\ s' = W.s
    /\ obs' = obs \cup Observe(W)
    /\ UNCHANGED aux

EntryStatus == IF s.rpc # 0 THEN rpc.status ELSE 0

SessionInit ==
    /\ avail = <<>>
    /\ sent = <<>>
    /\ sendLog = <<>>
    /\ delivered = <<>>
    /\ last = Call("none", 0, 0, NoMsg, <<>>, {})
    /\ AuxInit
    /\ \/ /\ s = jsonrpc_session_open
          /\ rpc = Freed
          /\ peer = <<>>
          /\ wire = <<>>
          /\ obs = {}
       \/ /\ s = jsonrpc_session_open_unreliably
          /\ rpc = jsonrpc_open
          /\ \E script \in SessionScripts :
               /\ peer = script
               /\ wire = PeerStream(script)
          /\ obs = {<<1, 0>>}

SessionRun ==
    \E r \in jsonrpc_session_run(World) :
        /\ r.W.s.seqno <= MaxSeqno
        /\ Len(r.W.sendLog) + Len(r.W.peer) <= MaxSessionLoad
        /\ Commit(r.W)
        /\ last' = SessionCall("s_run", EntryStatus, 0, NoMsg, r.dec,
                               r.W.notes, NoMsg)

SessionSend ==
    /\ s.rpc = 0 \/ Len(sendLog) + Len(peer) < MaxSessionLoad
    /\ \E msg \in SendMsgs : \E r \in jsonrpc_session_send(World, msg) :
         /\ Commit(r.W)
         /\ last' = [SessionCall("s_send", EntryStatus, r.ret, NoMsg, "",
                                 r.W.notes, NoMsg)
                       EXCEPT !.destroyed = r.destroyed]

SessionRecv ==
    \E r \in jsonrpc_session_recv(World) :
        /\ Commit(r.W)
        /\ last' = [SessionCall("s_recv", EntryStatus, 0, r.msgp, "",
                                r.W.notes, r.decoded)
                      EXCEPT !.destroyed = r.destroyed]

SessionNext == SessionRun \/ SessionSend \/ SessionRecv \/ Arrive

SessionSpec == SessionInit /\ [][SessionNext]_vars


(***************************************************************************)
(* Properties of the session, checked under SessionSpec.                   *)
(***************************************************************************)
Possession(x) ==
    IF x.rpc # 0 THEN "Connected"
    ELSE IF x.stream THEN "Connecting"
    ELSE "Idle"

\* C7: every step that moves the session between Idle, Connecting and
\* Connected leaves seqno strictly greater than it was.
C7_SeqnoTicksOnTransition ==
    [][Possession(s') # Possession(s) => s'.seqno > s.seqno]_vars

\* C8: seqno never decreases, and two observation points between session
\* calls at which the session holds different endpoint instances see
\* different values of seqno.
C8_SeqnoDetectsReconnect ==
    /\ [](\A p, q \in obs : p[1] # q[1] => p[2] # q[2])
    /\ [][s'.seqno >= s.seqno]_vars

\* The session was seen holding two different endpoint instances.
C8_Witness ==
    /\ \E p, q \in obs : p[1] # q[1]
    /\ s.rpc = 2

\* C9 as stated: between session calls, a session that reports itself
\* connected holds an endpoint whose status is 0.
C9_ConnectedIsLive ==
    jsonrpc_session_is_connected(World) => jsonrpc_get_status(rpc) = 0

\* C9 as the code has it: a session run that finds its endpoint dead
\* releases it, so the session is not connected after that run; a run that
\* sends no probe leaves any endpoint the session holds with status 0; and
\* until that run, a send on the dead endpoint returns its latched status and
\* a recv returns no message.
C9_DeadEndpointReleasedByRun ==
    [][ /\ (last'.op = "s_run" /\ s.rpc # 0 /\ rpc.status # 0
               => ~jsonrpc_session_is_connected([s |-> s']))
        /\ (last'.op = "s_run" /\ last'.dec # "PROBE" /\ s'.rpc # 0
               => rpc'.status = 0)
        /\ (last'.op = "s_send" /\ s.rpc # 0 /\ rpc.status # 0
               => last'.ret = rpc.status)
        /\ (last'.op = "s_recv" /\ s.rpc # 0 /\ rpc.status # 0
               => last'.msgp = NoMsg /\ last'.decoded = NoMsg) ]_vars

\* The endpoint died in a session recv or send and the next run released it.
C9_Witness ==
    /\ last.op = "s_run"
    /\ last.entry # 0
    /\ s.rpc = 0
    /\ s.seqno > 0

\* the buffer jsonrpc_send queues for the reply to the echo request M
EchoReplyText(M) ==
    json_to_string(JsonObject(<<<<"result", M.params>>, <<"error", JNull>>,
                                <<"id", M.id>>>>))

IsEchoRequest(M) == M.type = "JSONRPC_REQUEST" /\ M.method = "echo"

IsEchoReply(M) == M.type = "JSONRPC_REPLY" /\ M.id = "s:echo"

\* C10: for every message M the endpoint decodes in a session recv, the
\* controller is told of the activity, and (a) if M is a request with method
\* "echo", recv returns none and exactly one reply with M's params as result
\* and M's id is appended to the send queue; (b) if M is a reply with the
\* string id "echo", recv returns none and nothing is queued; (c) any other
\* M is returned unchanged and nothing is queued.
C10_EchoSuppression ==
    [][ last'.op = "s_recv" /\ last'.decoded # NoMsg =>
          LET M == last'.decoded
          IN  /\ M = ExpectedMsg(peer[Len(delivered')])
              /\ delivered' = Append(delivered, M)
              /\ "received" \in {last'.notes[i] : i \in 1..Len(last'.notes)}
              /\ IF IsEchoRequest(M)
                 THEN /\ last'.msgp = NoMsg
                      /\ sendLog' = Append(sendLog, EchoReplyText(M))
                 ELSE IF IsEchoReply(M)
                 THEN /\ last'.msgp = NoMsg
                      /\ sendLog' = sendLog
                 ELSE /\ last'.msgp = M
                      /\ sendLog' = sendLog ]_vars

\* An echo request was decoded and answered; recv returned none.
C10_Witness ==
    /\ last.op = "s_recv"
    /\ IsEchoRequest(last.decoded)
    /\ last.msgp = NoMsg
    /\ sendLog = <<EchoReplyText(last.decoded)>>


(***************************************************************************)
(* MsgSpec: the message functions (the factories, jsonrpc_msg_is_valid,    *)
(* jsonrpc_msg_to_json, jsonrpc_msg_from_json), each applied to an         *)
(* argument drawn from a bounded set.                                      *)
(***************************************************************************)
MsgTypes == {"JSONRPC_REQUEST", "JSONRPC_NOTIFY", "JSONRPC_REPLY",
             "JSONRPC_ERROR"}

\* Messages: every type with every combination of present members.
MsgInputs ==
    {jsonrpc_create(type, method, params, result, error, id) :
        type \in MsgTypes, method \in {NULL, "x"},
        params \in {NULL, JNull, "[]", "i:1"}, result \in {NULL, JNull, "i:1"},
        error \in {NULL, JNull, "s:x"}, id \in {NULL, JNull, "i:0", "s:echo"}}

\* JSON objects: any of the five members, and a sixth member or not.
JsonInputs ==
    {JsonObject(PutIf(method # NULL, "method", method)
             \o PutIf(params # NULL, "params", params)
             \o PutIf(result # NULL, "result", result)
             \o PutIf(error # NULL, "error", error)
             \o PutIf(id # NULL, "id", id)
             \o PutIf(extra # NULL, "jsonrpc", extra)) :
        method \in {NULL, JNull, "s:x", "i:1"},
        params \in {NULL, JNull, "[]", "i:1"}, result \in {NULL, JNull, "i:1"},
        error \in {NULL, JNull, "s:x"}, id \in {NULL, JNull, "i:0"},
        extra \in {NULL, "s:x"}}

\* Calls of the factories: array params, non-null result and error.
FactoryInputs ==
    {[factory |-> f, method |-> method, params |-> params, value |-> value,
      id |-> id] :
        f \in {"request", "notify", "reply", "error"}, method \in {"x", "echo"},
        params \in JArrays, value \in {"i:1", "s:x", "[]"},
        id \in {"i:0", "s:echo"}}

\* The call of the factory a names.
Factory(a) ==
    CASE a.factory = "request" ->
           jsonrpc_create_request(a.method, a.params, a.id)
      [] a.factory = "notify" -> jsonrpc_create_notify(a.method, a.params)
      [] a.factory = "reply" -> jsonrpc_create_reply(a.value, a.id)
      [] a.factory = "error" -> jsonrpc_create_error(a.value, a.id)

MsgInit ==
    /\ rpc = Freed
    /\ avail = <<>>
    /\ wire = <<>>
    /\ peer = <<>>
    /\ sent = <<>>
    /\ sendLog = <<>>
    /\ delivered = <<>>
    /\ last = Call("none", 0, 0, NoMsg, <<>>, {})
    /\ s = NoSession
    /\ obs = {}
    /\ arg \in MsgInputs \cup JsonInputs \cup FactoryInputs
    /\ res = NoResult
    /\ tx = NoTransaction
    /\ pair = NoPair
    /\ life = NoLife

MsgFrame ==
    UNCHANGED <<rpc, avail, wire, peer, sent, sendLog, delivered, last, s, obs,
                arg, tx, pair, life>>

MsgIsValid ==
    /\ arg \in MsgInputs
    /\ res' = [op |-> "is_valid", error |-> jsonrpc_msg_is_valid(arg)]
    /\ MsgFrame

MsgToJson ==
    /\ arg \in MsgInputs
    /\ res' = [op |-> "to_json", json |-> jsonrpc_msg_to_json(arg)]
    /\ MsgFrame

MsgFromJson ==
    /\ arg \in JsonInputs
    /\ LET r == jsonrpc_msg_from_json(arg)
       IN  res' = [op |-> "from_json", error |-> r.error, msg |-> r.msg]
    /\ MsgFrame

\* jsonrpc_msg_from_json applied to what jsonrpc_msg_to_json made of arg
MsgRoundTrip ==
    /\ arg \in MsgInputs
    /\ LET r == jsonrpc_msg_from_json(jsonrpc_msg_to_json(arg))
       IN  res' = [op |-> "round_trip", error |-> r.error, msg |-> r.msg]
    /\ MsgFrame

MsgCreate ==
    /\ arg \in FactoryInputs
    /\ LET msg == Factory(arg)
       IN  res' = [op |-> "create", msg |-> msg,
                   error |-> jsonrpc_msg_is_valid(msg),
                   json |-> jsonrpc_msg_to_json(msg)]
    /\ MsgFrame

MsgNext == MsgIsValid \/ MsgToJson \/ MsgFromJson \/ MsgRoundTrip \/ MsgCreate

MsgSpec == MsgInit /\ [][MsgNext]_vars

\* The members a message has, and those its type must have.
Present(m) ==
    {f \in {"method", "params", "result", "error", "id"} :
        CASE f = "method" -> m.method # NULL
          [] f = "params" -> m.params # NULL
          [] f = "result" -> m.result # NULL
          [] f = "error" -> m.error # NULL
          [] f = "id" -> m.id # NULL}

Row(type) ==
    CASE type = "JSONRPC_REQUEST" -> {"method", "params", "id"}
      [] type = "JSONRPC_NOTIFY" -> {"method", "params"}
      [] type = "JSONRPC_REPLY" -> {"result", "id"}
      [] type = "JSONRPC_ERROR" -> {"error", "id"}

\* C17: for every message M that jsonrpc_msg_is_valid accepts (JSON null
\* among the values of result, error and id), jsonrpc_msg_from_json of
\* jsonrpc_msg_to_json(M) succeeds and yields M, member for member.
C17_RoundTrip ==
    res.op = "round_trip" /\ jsonrpc_msg_is_valid(arg) = NoError =>
        /\ res.error = NoError
        /\ res.msg = arg

\* The members of a JSON object whose value is not JSON null.
NonNull(json) ==
    {json.members[i][1] : i \in {k \in 1..Len(json.members) :
                                    json.members[k][2] # JNull}}

Names(json) == {json.members[i][1] : i \in 1..Len(json.members)}

\* An object of the five members whose method, unless null, is a string and
\* whose params, unless null, is an array.
WellTyped(json) ==
    /\ Names(json) \subseteq {"method", "params", "result", "error", "id"}
    /\ shash_find(json.members, "method") \in {NULL, JNull} \cup JStrings
    /\ shash_find(json.members, "params") \in {NULL, JNull} \cup JArrays

\* C18: jsonrpc_msg_from_json takes every member whose value is JSON null,
\* method included, as absent, and yields a request when the non-null members
\* are exactly method, params and id, a notification for method and params, a
\* reply for result and id, an error for error and id; an object with a
\* member of another name is rejected with an error and no message.
C18_VariantInference ==
    res.op = "from_json" =>
        /\ WellTyped(arg) =>
              \A type \in MsgTypes :
                  NonNull(arg) = Row(type) =>
                      res.error = NoError /\ res.msg.type = type
        /\ ~(Names(arg) \subseteq {"method", "params", "result", "error", "id"})
              => res.error # NoError /\ res.msg = NoMsg

\* C19: each factory builds a message of its own type that carries the id
\* it was given and that jsonrpc_msg_is_valid accepts, and
\* jsonrpc_msg_to_json of a message built by jsonrpc_create_error has the
\* member result with the value null.
C19_FactoriesMatchVariant ==
    res.op = "create" =>
        /\ res.msg.type =
              (CASE arg.factory = "request" -> "JSONRPC_REQUEST"
                 [] arg.factory = "notify" -> "JSONRPC_NOTIFY"
                 [] arg.factory = "reply" -> "JSONRPC_REPLY"
                 [] arg.factory = "error" -> "JSONRPC_ERROR")
        /\ res.msg.id = (IF arg.factory = "notify" THEN NULL ELSE arg.id)
        /\ res.error = NoError
        /\ arg.factory = "error" =>
              shash_find(res.json.members, "result") = JNull

\* C20: jsonrpc_msg_is_valid returns no error exactly when the members
\* present are those of the type's row and params, if present, is an array;
\* a present params that is no array is rejected whatever the type; any
\* other error names the type and a member that the row requires and is
\* missing ("must") or that the row forbids and is present ("must not").
C20_ValidationTable ==
    res.op = "is_valid" =>
        LET present == Present(arg)
            row == Row(arg.type)
            array == arg.params = NULL \/ arg.params \in JArrays
        IN  /\ res.error = NoError <=> (present = row /\ array)
            /\ ~array => res.error = <<"params", "must be JSON array">>
            /\ array /\ present # row =>
                  /\ Len(res.error) = 3
                  /\ res.error[1] = jsonrpc_msg_type_to_string(arg.type)
                  /\ \/ res.error[2] = "must" /\ res.error[3] \in row \ present
                     \/ res.error[2] = "must not"
                          /\ res.error[3] \in present \ row

\* An error message that also has a result was rejected for the result.
C20_Witness ==
    /\ res.op = "is_valid"
    /\ arg.type = "JSONRPC_ERROR"
    /\ Present(arg) = {"result", "error", "id"}
    /\ res.error = <<"error", "must not", "result">>

(***************************************************************************)
(* SessionLiveSpec: SessionSpec where jsonrpc_session_run keeps being      *)
(* called, the controller of a session that may reconnect eventually       *)
(* decides to connect, and a connecting stream eventually connects.        *)
(***************************************************************************)
\* The steps of SessionRun in which reconnect_run returns dec.
SessionRunDeciding(dec) ==
    \E W1 \in jsonrpc_session_run_drive(World) :
        /\ dec \in Decisions(W1)
        /\ \E W2 \in jsonrpc_session_run_decide(W1, dec) :
             /\ W2.s.seqno <= MaxSeqno
             /\ Len(W2.sendLog) + Len(W2.peer) <= MaxSessionLoad
             /\ Commit(W2)
             /\ last' = SessionCall("s_run", EntryStatus, 0, NoMsg, dec,
                                    W2.notes, NoMsg)

\* a run that finds the endpoint dead
RunReleases == s.rpc # 0 /\ rpc.status # 0 /\ SessionRunDeciding("NOP")

\* a run of an idle session in which the controller decides to connect and
\* stream_open succeeds
RunConnects ==
    s.rpc = 0 /\ ~s.stream /\ SessionRunDeciding("CONNECT") /\ s'.stream

\* a run in which the connecting stream turns out connected
RunPromotes == s.stream /\ SessionRunDeciding("NOP") /\ s'.rpc # 0

SessionLiveSpec ==
    /\ SessionSpec
    /\ WF_vars(RunReleases)
    /\ SF_vars(RunConnects)
    /\ SF_vars(RunPromotes)

\* The session was created by jsonrpc_session_open_unreliably: only such a
\* session holds its first endpoint while seqno is 0.
Attached == <<1, 0>> \in obs

\* C12: a run that finds the session's endpoint dead tells the controller
\* of the disconnect first, destroys the endpoint and increments seqno,
\* leaving the session idle unless the controller has it connect in the same
\* run; a run of an idle session in which the controller decides to connect
\* and stream_open succeeds leaves it connecting with seqno incremented; and
\* a session that may reconnect and holds a dead endpoint eventually holds a
\* fresh endpoint with status 0 (unless seqno has reached the bound explored
\* while the session is not connecting).
C12_SurvivesEndpointDeath ==
    /\ [][ /\ (last'.op = "s_run" /\ s.rpc # 0 /\ rpc.status # 0 =>
                /\ last'.notes[1] = "disconnected"
                /\ s'.rpc = 0
                /\ rpc' = Freed
                /\ IF last'.dec = "CONNECT"
                   THEN s'.seqno = s.seqno + 2
                   ELSE s'.seqno = s.seqno + 1 /\ Possession(s') = "Idle")
           /\ (last'.op = "s_run" /\ Possession(s) = "Idle"
                  /\ last'.dec = "CONNECT" /\ last'.notes = <<"connecting">> =>
                /\ Possession(s') = "Connecting"
                /\ s'.seqno = s.seqno + 1) ]_vars
    /\ (s.rpc # 0 /\ rpc.status # 0 /\ s.max_tries # 0)
         ~> (\/ s.rpc # 0 /\ rpc.status = 0 /\ s.rpc = s.gen
             \/ s.seqno >= MaxSeqno /\ Possession(s) # "Connecting")

\* The session holds its second endpoint, healthy, after a run promoted the
\* stream.
C12_Witness ==
    /\ s.max_tries # 0
    /\ s.rpc = 2
    /\ rpc.status = 0
    /\ last.op = "s_run"
    /\ last.notes = <<"connected">>

\* C13: once a session created by jsonrpc_session_open_unreliably has lost
\* its endpoint it holds no stream and jsonrpc_session_is_alive is false, and
\* it never holds an endpoint or a stream again.
C13_UnreliableNeverReconnects ==
    /\ [](Attached /\ s.rpc = 0 =>
            /\ ~s.stream
            /\ ~jsonrpc_session_is_alive(World))
    /\ [][Attached /\ s.rpc = 0 => s'.rpc = 0 /\ ~s'.stream]_vars

\* The session lost its only endpoint and was run again afterwards.
C13_Witness ==
    /\ Attached
    /\ s.rpc = 0
    /\ s.seqno = 1
    /\ last.op = "s_run"
    /\ last.entry = 0
    /\ last.notes = <<>>

\* C15: a message handed to jsonrpc_send or jsonrpc_session_send has been
\* freed exactly once when the call returns (serialized into the output queue
\* or destroyed), whether the endpoint is healthy or dead and whether the
\* session is connected or not; and a message decoded by
\* jsonrpc_session_recv is either returned to the caller, not freed, or
\* freed exactly once and not returned.
C15_SendConsumes ==
    /\ last.op \in {"send", "s_send"} => last.destroyed = 1
    /\ last.op = "s_recv" /\ last.decoded # NoMsg =>
         \/ last.msgp = last.decoded /\ last.destroyed = 0
         \/ last.msgp = NoMsg /\ last.destroyed = 1

(***************************************************************************)
(* LoopSpec: the endpoint alone, as in Spec, each call of jsonrpc_run,     *)
(* jsonrpc_send and jsonrpc_recv leaving in res the number of iterations   *)
(* of its loop that neither made progress nor left the loop.               *)
(***************************************************************************)
LoopResult(op, idle) == [op |-> op, idle |-> idle]

LoopRun ==
    /\ \E r \in jsonrpc_run(rpc) :
         /\ rpc' = r.rpc
         /\ sent' = sent \o r.wrote
         /\ avail' = Pending(r.rpc, avail)
         /\ wire' = Pending(r.rpc, wire)
         /\ res' = LoopResult("run", r.idle)
    /\ last' = Call("none", 0, 0, NoMsg, <<>>, {})
    /\ UNCHANGED <<peer, sendLog, delivered, s, obs, arg, tx, pair, life>>

LoopSend ==
    /\ rpc.status # 0 \/ Len(sendLog) + Len(peer) < MaxLoad
    /\ \E msg \in SendMsgs : \E r \in jsonrpc_send(rpc, msg) :
         /\ rpc' = r.rpc
         /\ sent' = sent \o r.wrote
         /\ sendLog' = sendLog \o r.pushed
         /\ avail' = Pending(r.rpc, avail)
         /\ wire' = Pending(r.rpc, wire)
         /\ last' = [Call("send", rpc.status, r.ret, NoMsg, <<>>, {})
                       EXCEPT !.destroyed = r.destroyed]
         /\ res' = LoopResult("send", r.idle)
    /\ UNCHANGED <<peer, delivered, s, obs, arg, tx, pair, life>>

LoopRecv ==
    /\ \E r \in jsonrpc_recv(rpc, avail) :
         /\ rpc' = r.rpc
         /\ avail' = Pending(r.rpc, r.avail)
         /\ wire' = Pending(r.rpc, wire)
         /\ delivered' = IF r.msgp # NoMsg THEN Append(delivered, r.msgp)
                         ELSE delivered
         /\ last' = Call("recv", rpc.status, r.ret, r.msgp, r.fin, {})
         /\ res' = LoopResult("recv", r.idle)
    /\ UNCHANGED <<peer, sent, sendLog, s, obs, arg, tx, pair, life>>

LoopNext == LoopRun \/ LoopSend \/ LoopRecv \/ Arrive

LoopSpec == Init /\ [][LoopNext]_vars

\* C16: in every call of jsonrpc_run, jsonrpc_send and jsonrpc_recv, each
\* iteration of the loop either makes progress (bytes written, bytes read,
\* bytes taken by the parser or a value finished) or leaves the loop,
\* whatever the transport answers to a write: all bytes, some, none, EAGAIN
\* or an error.
C16_LoopsProgress ==
    res.op \in {"run", "send", "recv"} => res.idle = 0

(***************************************************************************)
(* TransactSpec: one call of jsonrpc_transact_block on an endpoint.  The   *)
(* call blocks in poll_block inside jsonrpc_send_block and                 *)
(* jsonrpc_recv_block; tx.pc says where it is, each action runs it from    *)
(* one poll_block to the next, and the peer's bytes arrive in between.     *)
(* tx.destroyed lists the messages the call has destroyed.                 *)
(***************************************************************************)
MaxTxLoad == 2

TxPeerValues == {ObjNotify, ObjRequestEcho, ObjReply, ObjReplyMatch,
                 ObjErrorMatch}

TxScripts == UNION {[1..n -> TxPeerValues] : n \in 0..MaxTxLoad}

\* json_equal on the ids of the model, which are atoms
json_equal(a, b) == a = b

\* A slip: the type of the message is not looked at.
TransactMatches_any_type(id, reply) == json_equal(id, reply.id)

\* reply->type == JSONRPC_REPLY && json_equal(id, reply->id)
TransactMatches(id, reply) ==
    reply.type = "JSONRPC_REPLY" /\ json_equal(id, reply.id)

TxDone(t, error, reply) ==
    [t EXCEPT !.pc = "done", !.ret = error,
              !.reply = IF error # 0 THEN NoMsg ELSE reply]

\* The loop of jsonrpc_transact_block, with jsonrpc_recv_block inlined, up
\* to the next poll_block or the return: every [W, tx] it can end in.
RECURSIVE TransactRecvLoop(_, _)
TransactRecvLoop(W, t) ==
    UNION {
      LET W1 == [Cleaned(W, r.rpc)
                   EXCEPT !.rpc = r.rpc,
                          !.avail = Pending(r.rpc, r.avail),
                          !.wire = Pending(r.rpc, @),
                          !.delivered = IF r.msgp # NoMsg
                                        THEN Append(@, r.msgp) ELSE @]
      IN  IF r.ret = EAGAIN
          THEN {[W |-> W2, tx |-> [t EXCEPT !.pc = "recv_block"]]
                  : W2 \in {AfterSend(W1, rr) : rr \in jsonrpc_run(W1.rpc)}}
          ELSE IF r.ret # 0 \/ TransactMatches(t.id, r.msgp)
          THEN {[W |-> W1, tx |-> TxDone(t, r.ret, r.msgp)]}
          ELSE TransactRecvLoop(W1, [t EXCEPT !.destroyed = Append(@, r.msgp)])
      : r \in jsonrpc_recv(W.rpc, W.avail) }

\* The loop of jsonrpc_send_block up to the next poll_block; when it returns
\* 0 the call goes on into the receive loop.
TransactSendLoop(W, t) ==
    UNION {
      IF W1.rpc.output = <<>> \/ W1.rpc.status # 0
      THEN IF W1.rpc.status # 0
           THEN {[W |-> W1, tx |-> TxDone(t, W1.rpc.status, NoMsg)]}
           ELSE TransactRecvLoop(W1, t)
      ELSE {[W |-> W1, tx |-> [t EXCEPT !.pc = "send_block"]]}
      : W1 \in {AfterSend(W, r) : r \in jsonrpc_run(W.rpc)} }

\* jsonrpc_transact_block from its entry
jsonrpc_transact_block(W, request) ==
    LET t == [pc |-> "send_block", id |-> request.id, ret |-> 0,
              reply |-> NoMsg, destroyed |-> <<>>]
    IN  UNION {
          IF x.error # 0
          THEN {[W |-> x.W, tx |-> TxDone(t, x.error, NoMsg)]}
          ELSE TransactSendLoop(x.W, t)
          : x \in {[W |-> [AfterSend(W, r) EXCEPT !.sendLog = @ \o r.pushed],
                    error |-> r.ret] : r \in jsonrpc_send(W.rpc, request)} }

TxCommit(x) ==
    /\ rpc' = x.W.rpc
    /\ avail' = x.W.avail
    /\ wire' = x.W.wire
    /\ sent' = x.W.sent
    /\ sendLog' = x.W.sendLog
    /\ delivered' = x.W.delivered
    /\ tx' = x.tx
    /\ last' = Call("transact", rpc.status, x.tx.ret, x.tx.reply, <<>>, {})
    /\ UNCHANGED <<peer, s, obs, arg, res, pair, life>>

TransactInit ==
    /\ rpc = jsonrpc_open
    /\ avail = <<>>
    /\ \E script \in TxScripts :
         /\ peer = script
         /\ wire = PeerStream(script)
    /\ sent = <<>>
    /\ sendLog = <<>>
    /\ delivered = <<>>
    /\ last = Call("none", 0, 0, NoMsg, <<>>, {})
    /\ s = NoSession
    /\ obs = {}
    /\ AuxInit

TransactCall ==
    /\ tx.pc = "none"
    /\ \E x \in jsonrpc_transact_block(World, MsgRequest) : TxCommit(x)

TransactSendWake ==
    /\ tx.pc = "send_block"
    /\ \E x \in TransactSendLoop(World, tx) : TxCommit(x)

TransactRecvWake ==
    /\ tx.pc = "recv_block"
    /\ \E x \in TransactRecvLoop(World, tx) : TxCommit(x)

TransactNext == TransactCall \/ TransactSendWake \/ TransactRecvWake \/ Arrive

TransactSpec == TransactInit /\ [][TransactNext]_vars

\* C14: jsonrpc_transact_block returns 0 with the first message the peer
\* wrote that is a reply whose id equals the request's id; every message
\* received before it (notification, request, error, even with that id, or
\* reply with another id) was destroyed and none of them returned; when it
\* returns an error, that is the endpoint's status, no reply is returned and
\* every message received was destroyed.
C14_TransactionMatching ==
    /\ \A i \in 1..Len(delivered) : delivered[i] = ExpectedMsg(peer[i])
    /\ tx.pc # "none" =>
         /\ tx.id = MsgRequest.id
         /\ \A i \in 1..Len(tx.destroyed) :
              ~(tx.destroyed[i].type = "JSONRPC_REPLY"
                  /\ tx.destroyed[i].id = tx.id)
    /\ tx.pc \in {"send_block", "recv_block"} => tx.destroyed = delivered
    /\ tx.pc = "done" /\ tx.ret = 0 =>
         /\ rpc.status = 0
         /\ delivered = Append(tx.destroyed, tx.reply)
         /\ tx.reply.type = "JSONRPC_REPLY"
         /\ tx.reply.id = tx.id
    /\ tx.pc = "done" /\ tx.ret # 0 =>
         /\ tx.ret = rpc.status
         /\ tx.reply = NoMsg
         /\ tx.destroyed = delivered
    /\ last.op = "transact" => last.ret = tx.ret /\ last.msgp = tx.reply

\* An error with the request's id was destroyed before the matching reply
\* was returned, the call having blocked for it.
C14_Witness ==
    /\ tx.pc = "done"
    /\ tx.ret = 0
    /\ tx.destroyed = <<ExpectedMsg(ObjErrorMatch)>>
    /\ tx.reply = ExpectedMsg(ObjReplyMatch)
    /\ last.op = "transact"
    /\ last.entry = 0
    /\ sent = sendLog[1]

(***************************************************************************)
(* PairSpec: two sessions, each created by jsonrpc_session_open_unreliably *)
(* on one end of the same connection.  pair[i] is session i with its       *)
(* endpoint; the bytes the transport accepts from one session become       *)
(* readable by the other.  pair[i].load counts the probes and the caller's *)
(* messages session i has sent.  last is the last call and res.side the    *)
(* session it was made on; res.pushed are the buffers the call queued.     *)
(***************************************************************************)
MaxPairLoad == 1

Sides == {1, 2}

Other(i) == 3 - i

PairEnd ==
    [s |-> jsonrpc_session_open_unreliably, rpc |-> jsonrpc_open,
     avail |-> <<>>, wire |-> <<>>, peer |-> <<>>, sent |-> <<>>,
     sendLog |-> <<>>, delivered |-> <<>>, notes |-> <<>>, load |-> 0,
     life |-> NoLife]

PairInit ==
    /\ pair = <<PairEnd, PairEnd>>
    /\ rpc = Freed
    /\ avail = <<>>
    /\ wire = <<>>
    /\ peer = <<>>
    /\ sent = <<>>
    /\ sendLog = <<>>
    /\ delivered = <<>>
    /\ s = NoSession
    /\ obs = {}
    /\ last = Call("none", 0, 0, NoMsg, <<>>, {})
    /\ arg = NoMsg
    /\ res = NoResult
    /\ tx = NoTransaction
    /\ life = NoLife

\* Session i is left as W by a call: what its transport accepted during the
\* call is readable by the other session, unless that one has closed its end.
PairCommit(i, W, load) ==
    LET j == Other(i)
        mine == [W EXCEPT !.sent = <<>>, !.sendLog = <<>>, !.delivered = <<>>,
                          !.notes = <<>>, !.load = load, !.life = NoLife]
        theirs == [pair[j] EXCEPT !.avail = Pending(pair[j].rpc, @ \o W.sent)]
    IN  /\ pair' = [k \in Sides |-> IF k = i THEN mine ELSE theirs]
        /\ res' = [op |-> "pair", side |-> i, pushed |-> W.sendLog]
        /\ UNCHANGED <<rpc, avail, wire, peer, sent, sendLog, delivered, s,
                       obs, arg, tx, life>>

PairEntryStatus(i) == IF pair[i].s.rpc # 0 THEN pair[i].rpc.status ELSE 0

PairRun ==
    \E i \in Sides : \E r \in jsonrpc_session_run(pair[i]) :
        LET probed == IF r.dec = "PROBE" /\ r.W.s.rpc # 0 THEN 1 ELSE 0
        IN  /\ pair[i].load + probed <= MaxPairLoad
            /\ PairCommit(i, r.W, pair[i].load + probed)
            /\ last' = SessionCall("s_run", PairEntryStatus(i), 0, NoMsg,
                                   r.dec, r.W.notes, NoMsg)

PairSend ==
    \E i \in Sides : \E r \in jsonrpc_session_send(pair[i], MsgRequest) :
        /\ pair[i].load < MaxPairLoad
        /\ PairCommit(i, r.W, pair[i].load + 1)
        /\ last' = [SessionCall("s_send", PairEntryStatus(i), r.ret, NoMsg,
                                "", r.W.notes, NoMsg)
                      EXCEPT !.destroyed = r.destroyed]

PairRecv ==
    \E i \in Sides : \E r \in jsonrpc_session_recv(pair[i]) :
        /\ PairCommit(i, r.W, pair[i].load)
        /\ last' = [SessionCall("s_recv", PairEntryStatus(i), 0, r.msgp, "",
                                r.W.notes, r.decoded)
                      EXCEPT !.destroyed = r.destroyed]

PairNext == PairRun \/ PairSend \/ PairRecv

PairSpec == PairInit /\ [][PairNext]_vars

\* The text of {"method":"echo","params":[],"id":"echo"}.
ProbeText ==
    json_to_string(JsonObject(<<<<"method", "s:echo">>, <<"params", "[]">>,
                                <<"id", "s:echo">>>>))

\* C11: a run in which the controller decides to probe queues, if the
\* session is connected, exactly one request with method "echo", an empty
\* array as params and the string "echo" as id, and changes nothing if the
\* session is not connected; between two sessions connected to each other,
\* whatever the interleaving of their calls and the chunking of the bytes,
\* jsonrpc_session_recv never returns to its caller an echo request or a
\* reply with the id "echo", what it returns is what the other side's caller
\* sent, and when it decodes the reply to a probe it has told the controller
\* that a message was received.
C11_ProbeTransparent ==
    /\ [](/\ (last.op = "s_run" /\ last.dec = "PROBE" =>
                 res.pushed = IF pair[res.side].s.rpc # 0 THEN <<ProbeText>>
                              ELSE <<>>)
          /\ (last.op = "s_run" /\ last.dec # "PROBE" => res.pushed = <<>>)
          /\ (last.op = "s_recv" /\ last.msgp # NoMsg =>
                 /\ last.msgp = MsgRequest
                 /\ last.msgp = last.decoded)
          /\ (last.op = "s_recv" /\ IsEchoRequest(last.decoded) =>
                 /\ last.decoded = ProbeRequest
                 /\ last.msgp = NoMsg)
          /\ (last.op = "s_recv" /\ IsEchoReply(last.decoded) =>
                 /\ last.decoded = jsonrpc_create_reply("[]", "s:echo")
                 /\ last.msgp = NoMsg
                 /\ last.notes = <<"received">>))
    /\ [][\A i \in Sides :
            /\ last'.op = "s_run"
            /\ last'.dec = "PROBE"
            /\ res'.side = i
            /\ pair[i].s.rpc = 0
            => pair' = pair]_vars

\* Session 1 probed, session 2 answered, and session 1's recv decoded the
\* reply and kept it from its caller.
C11_Witness ==
    /\ last.op = "s_recv"
    /\ res.side = 1
    /\ IsEchoReply(last.decoded)
    /\ last.msgp = NoMsg
    /\ last.notes = <<"received">>
    /\ pair[1].load = 1
    /\ pair[2].load = 0
    /\ pair[1].s.rpc # 0
    /\ pair[2].s.rpc # 0

(***************************************************************************)
(* LifeSpec: one session from its creation to jsonrpc_session_close, on    *)
(* connections whose peer writes nothing, with a controller that may       *)
(* decide anything and a transport that may fail at any time.  life counts *)
(* the streams the session opened or was given and the calls of            *)
(* stream_close on an open stream.                                         *)
(***************************************************************************)
\* jsonrpc_session_force_reconnect: the controller is told, nothing else
jsonrpc_session_force_reconnect(W) == Note(W, "force_reconnect")

\* jsonrpc_session_close: jsonrpc_close(s->rpc), reconnect_destroy, free(s);
\* s->stream is not looked at
jsonrpc_session_close(W) ==
    LET W1 == IF W.s.rpc # 0 THEN [jsonrpc_close(W) EXCEPT !.s.rpc = 0]
              ELSE W
    IN  [Note(W1, "destroy") EXCEPT !.life.freed = TRUE]

LifeInit ==
    /\ avail = <<>>
    /\ wire = <<>>
    /\ peer = <<>>
    /\ sent = <<>>
    /\ sendLog = <<>>
    /\ delivered = <<>>
    /\ obs = {}
    /\ last = Call("none", 0, 0, NoMsg, <<>>, {})
    /\ arg = NoMsg
    /\ res = NoResult
    /\ tx = NoTransaction
    /\ pair = NoPair
    /\ \/ /\ s = jsonrpc_session_open
          /\ rpc = Freed
          /\ life = NoLife
       \/ /\ s = jsonrpc_session_open_unreliably
          /\ rpc = jsonrpc_open
          /\ life = [NoLife EXCEPT !.opened = 1]

LifeCommit(W) ==
    /\ W.s.seqno <= MaxSeqno
    /\ W.peer = <<>>
    /\ Len(W.sendLog) <= MaxSessionLoad
    /\ rpc' = W.rpc
    /\ avail' = W.avail
    /\ wire' = W.wire
    /\ peer' = W.peer
    /\ sent' = W.sent
    /\ sendLog' = W.sendLog
    /\ delivered' = W.delivered
    /\ s' = W.s
    /\ life' = W.life
    /\ UNCHANGED <<obs, arg, res, tx, pair>>

LifeRun ==
    /\ ~life.freed
    /\ \E r \in jsonrpc_session_run(World) :
         /\ LifeCommit(r.W)
         /\ last' = SessionCall("s_run", EntryStatus, 0, NoMsg, r.dec,
                                r.W.notes, NoMsg)

LifeSend ==
    /\ ~life.freed
    /\ \E msg \in SendMsgs : \E r \in jsonrpc_session_send(World, msg) :
         /\ LifeCommit(r.W)
         /\ last' = [SessionCall("s_send", EntryStatus, r.ret, NoMsg, "",
                                 r.W.notes, NoMsg)
                       EXCEPT !.destroyed = r.destroyed]

LifeRecv ==
    /\ ~life.freed
    /\ \E r \in jsonrpc_session_recv(World) :
         /\ LifeCommit(r.W)
         /\ last' = [SessionCall("s_recv", EntryStatus, 0, r.msgp, "",
                                 r.W.notes, r.decoded)
                       EXCEPT !.destroyed = r.destroyed]

LifeForceReconnect ==
    /\ ~life.freed
    /\ LET W == jsonrpc_session_force_reconnect(World)
       IN  /\ LifeCommit(W)
           /\ last' = SessionCall("s_force_reconnect", EntryStatus, 0, NoMsg,
                                  "", W.notes, NoMsg)

LifeClose ==
    /\ ~life.freed
    /\ LET W == jsonrpc_session_close(World)
       IN  /\ LifeCommit(W)
           /\ last' = SessionCall("s_close", EntryStatus, 0, NoMsg, "",
                                  W.notes, NoMsg)

LifeNext == LifeRun \/ LifeSend \/ LifeRecv \/ LifeForceReconnect \/ LifeClose

LifeSpec == LifeInit /\ [][LifeNext]_vars

\* The streams the session holds open: the one it is connecting and the one
\* its endpoint holds.
Held ==
    (IF s.stream THEN 1 ELSE 0) + (IF s.rpc # 0 /\ rpc.stream THEN 1 ELSE 0)

\* C21: whatever the calls of run, send, recv and force_reconnect and the
\* controller's decisions (connecting again while connecting or connected,
\* stream_open failing), the session never holds a connecting stream and an
\* endpoint at the same time, it holds at most one open stream, and after a
\* run that turned the stream into an endpoint the session's stream is not
\* that stream: it is null, or a new one opened by a later connect in the
\* same run, the endpoint having been closed.
C21_ExclusivePossession ==
    /\ [](~life.freed =>
            /\ ~(s.stream /\ s.rpc # 0)
            /\ Held <= 1
            /\ life.opened - life.closed = Held)
    /\ [][last'.op = "s_run" /\ last'.notes # <<>>
            /\ last'.notes[1] = "connected" =>
            /\ s.stream
            /\ IF last'.dec = "CONNECT"
               THEN /\ s'.rpc = 0
                    /\ life'.closed = life.closed + 1
                    /\ s'.stream => life'.opened = life.opened + 1
               ELSE /\ ~s'.stream
                    /\ last'.dec # "DISCONNECT" => s'.rpc = s.gen + 1]_vars

\* A run turned the connecting stream into an endpoint and the controller
\* then had the session connect again: the endpoint is gone and the session
\* holds a new connecting stream.
C21_Witness ==
    /\ last.op = "s_run"
    /\ last.dec = "CONNECT"
    /\ last.notes = <<"connected", "connecting">>
    /\ s.stream
    /\ s.rpc = 0
    /\ life.opened = 2
    /\ life.closed = 1

\* C22: when jsonrpc_session_close returns, every stream the session opened
\* or was given has been closed exactly once, directly or by the endpoint
\* that took it, whether the session was idle, connecting, connected or
\* connected with a dead endpoint; and no stream is ever closed more often
\* than one was opened.
C22_NoStreamOutlivesSession ==
    /\ life.closed <= life.opened
    /\ life.freed => life.closed = life.opened

=============================================================================
